---- MODULE Spec2Model ----
(***************************************************************************)
(* The stochastic path-tracing core of appleseed:                          *)
(*   - PathTracer::trace                 (renderer/kernel/lighting/        *)
(*                                        pathtracer.h)                    *)
(*   - LightTracingSampleGenerator       (renderer/kernel/rendering/       *)
(*                                        lighttracing/                    *)
(*                                        lighttracingsamplegenerator.cpp) *)
(*   - compute_image_based_lighting     (renderer/kernel/lighting/        *)
(*                                        imagebasedlighting.cpp)          *)
(*   - IRendererControllerWrapper        (the Python binding of the        *)
(*                                        renderer controller)             *)
(* One generator drives one PathTracer.  The intersector, the surface      *)
(* shader, the BSDF, the EDF, the light sampler, the camera and the        *)
(* sampling context are external collaborators: each of their results is   *)
(* drawn from a small set, which depends on the scene:                     *)
(*   "open"    every kind of surface, BSDF sample, light sample and        *)
(*             visitor answer, on paths of at most SceneDepth surfaces;    *)
(*   "plain"   opaque mirrors seen or not by the camera, on paths of at    *)
(*             most SceneDepth surfaces, for successive invocations;       *)
(*   "mirror"  a closed box of mirrors no ray leaves, for the walks that   *)
(*             run into the hard limit;                                    *)
(*   "corridor" opaque walls that reflect or absorb, seen or not by the    *)
(*             camera, on paths of one surface more than SceneDepth.       *)
(* Spec and FairSpec explore the generator and its walks, IblSpec the      *)
(* image-based-lighting estimator, ReplaySpec two generators around their  *)
(* reset, PySpec the renderer-controller callbacks forwarded to Python.    *)
(***************************************************************************)
EXTENDS Integers, Sequences, FiniteSets, TLC

(***************************************************************************)
(* Bounds of the model.                                                    *)
(***************************************************************************)
\* Floats are modelled with a one-bit significand: the finite positive
\* values are 2^e for e in -MaxExp..MaxExp; larger results overflow to Inf,
\* smaller ones underflow to 0.
MaxExp == 1
\* In the open scene a scattered ray can hit a surface only while the path
\* has at most SceneDepth segments; later scattered rays leave the scene.
SceneDepth == 2
\* Number of successive generate_samples invocations that are explored (in
\* the plain scene; the first invocation alone in the other scenes).
MaxInvocations == 2
\* Largest sample count the image-based-lighting estimator is called with.
MaxSamples == 2
\* Number of states of the random number generator.
RngPeriod == 7
\* Number of renderer-controller callbacks the renderer makes.
MaxCallbacks == 2

(***************************************************************************)
(* Float arithmetic (IEEE-754 shape: 0, finite, Inf, NaN; no negatives,    *)
(* BSDF values and densities being non-negative).  A scalar is an integer  *)
(* code: e stands for 2^e, Zero for 0.0, Inf and NaN for themselves.       *)
(***************************************************************************)
Pow2(e) == e
Zero == 0 - (MaxExp + 1)
Inf == MaxExp + 1
NaN == MaxExp + 2
One == Pow2(0)
Half == Pow2(0 - 1)
Two == Pow2(1)
Finite == (0 - MaxExp)..MaxExp

IsFinite(x) == x \in Finite \cup {Zero}

Round(e) == IF e > MaxExp THEN Inf ELSE IF e < 0 - MaxExp THEN Zero ELSE e

\* a < b on floats (false as soon as one side is NaN)
Less(a, b) == a # NaN /\ b # NaN /\ a < b

\* a >= b on floats (false as soon as one side is NaN)
GreaterEq(a, b) == a # NaN /\ b # NaN /\ a >= b

Mul(a, b) ==
    IF a = NaN \/ b = NaN THEN NaN
    ELSE IF {a, b} = {Zero, Inf} THEN NaN
    ELSE IF a = Zero \/ b = Zero THEN Zero
    ELSE IF a = Inf \/ b = Inf THEN Inf
    ELSE Round(a + b)

Div(a, b) ==
    IF a = NaN \/ b = NaN THEN NaN
    ELSE IF (a = Zero /\ b = Zero) \/ (a = Inf /\ b = Inf) THEN NaN
    ELSE IF a = Zero \/ b = Inf THEN Zero
    ELSE IF b = Zero \/ a = Inf THEN Inf
    ELSE Round(a - b)

\* std::min(a, b) == (b < a) ? b : a
Min(a, b) == IF Less(b, a) THEN b ELSE a

\* A Spectrum has two components here.
Spectrum(x) == <<x, x>>
SMul(a, b) == <<Mul(a[1], b[1]), Mul(a[2], b[2])>>
SDiv(a, x) == <<Div(a[1], x), Div(a[2], x)>>
SFinite(a) == IsFinite(a[1]) /\ IsFinite(a[2])

\* foundation::max_value: the largest component
max_value(a) == IF Less(a[1], a[2]) THEN a[2] ELSE a[1]

(***************************************************************************)
(* BSDF capability: modes and the Dirac-delta sentinel.                    *)
(***************************************************************************)
Modes == {"Diffuse", "Glossy", "Specular"}
\* The sentinel is a value no probability density takes.
DiracDelta == MaxExp + 3

(***************************************************************************)
(* State.                                                                  *)
(***************************************************************************)
VARIABLES
    \* the scene the collaborators answer for: "open", "plain", "mirror" or
    \* "corridor"
    scene,
    \* PathTracer members and template parameter
    m_rr_min_path_length, m_max_path_length, ScatteringModesMask,
    \* LightTracingSampleGenerator: m_stats and the caller's SampleVector
    m_path_count, m_path_length, samples,
    \* PathVisitor members
    m_sample_count, m_alpha,
    \* where the generator is: "idle", "trace" (in the walk loop of
    \* PathTracer::trace) or "traced" (trace has returned)
    pc,
    \* locals of PathTracer::trace
    throughput, path_length, bsdf_mode, bsdf_prob,
    shading_point_ptr, shading_point_index, alpha_mask, ray, bsdf_value,
    \* value returned by the last generate_samples
    ret,
    \* history: how the last loop iteration ended, what it did, and what
    \* the current invocation has done so far
    step, drew_alpha, visited, nVisit, nEnv, nScattered,
    divByZero, assertFailed, invocations, samples0,
    \* history: whether the roulette sample was drawn in the last iteration,
    \* whether the light vertex projected outside the image, and the
    \* particle weight the visitor was constructed with
    drew_rr, light_outside, initial_alpha,
    \* history: the callback made in the last iteration with the mode and
    \* the probability it was passed, <<>> when none was made
    received,
    \* compute_image_based_lighting: where it is ("idle", "bsdf_sampling",
    \* "env_sampling" or "done"), its parameters, the loop index i, the
    \* local radiance_env_sampling and the position of the caller's
    \* sampling context in its stream
    ibl_pc, bsdf_sample_count, env_sample_count, sample_index, radiance,
    radiance_env_sampling, sampling_context,
    \* history of the estimator: what the last iteration did, the MIS weight
    \* it used, and the contributions added by each technique
    drawn, mis_weight, contribs_bsdf, contribs_env,
    \* two generators: the state of m_rng of each, whether it was reset,
    \* what its calls after the reset produced, the state of m_rng when it
    \* was reset, and the sequence_index values passed after the reset
    m_rng, was_reset, replayed, rng_at_reset, script,
    \* IRendererControllerWrapper: where the renderer thread is ("renderer",
    \* "entered" a callback, "locked", "thrown", "returning", or "exited"
    \* with the process), who holds the GIL, the callback being made, the
    \* Python error indicator, what the callback returned to the renderer,
    \* whether the override raised, and the number of callbacks made
    py_pc, gil, callback, error_indicator, result, raised, nCallbacks

cfgVars == <<scene, m_rr_min_path_length, m_max_path_length, ScatteringModesMask>>
genVars == <<m_path_count, m_path_length, ret, invocations, samples0>>
walkVars == <<samples, m_sample_count, m_alpha, pc, throughput, path_length,
              bsdf_mode, bsdf_prob, shading_point_ptr, shading_point_index,
              alpha_mask, step, drew_alpha, visited, nVisit, nEnv,
              nScattered, divByZero, assertFailed, ray, bsdf_value,
              drew_rr, light_outside, initial_alpha, received>>
iblVars == <<ibl_pc, bsdf_sample_count, env_sample_count, sample_index,
             radiance, radiance_env_sampling, sampling_context, drawn,
             mis_weight, contribs_bsdf, contribs_env>>
replayVars == <<m_rng, was_reset, replayed, rng_at_reset, script>>
pyVars == <<py_pc, gil, callback, error_indicator, result, raised, nCallbacks>>
vars == <<cfgVars, genVars, walkVars, iblVars, replayVars, pyVars>>

(***************************************************************************)
(* Program constants.                                                      *)
(***************************************************************************)
HardPathLengthLimit == 10000

(***************************************************************************)
(* What the collaborators can answer.                                      *)
(***************************************************************************)
\* uniform samples in [0,1)
Uniform == {Zero, Half}

\* A shading point: whether the ray hit, what is bound at the hit, and the
\* alpha mask the surface shader evaluates there.
Point(h, m, s, b, a) ==
    [hit |-> h, material |-> m, surface_shader |-> s, bsdf |-> b, alpha |-> a]
MissPoint == Point(FALSE, FALSE, FALSE, FALSE, One)
MirrorPoint == Point(TRUE, TRUE, TRUE, TRUE, One)
Surfaces ==
    { Point(TRUE, FALSE, FALSE, FALSE, One),
      Point(TRUE, TRUE, FALSE, FALSE, One),
      Point(TRUE, TRUE, TRUE, FALSE, One),
      Point(TRUE, TRUE, TRUE, TRUE, Zero),
      Point(TRUE, TRUE, TRUE, TRUE, Half),
      MirrorPoint }

\* Intersector::trace for the light ray and for a cutoff ray: a straight
\* line can cross any number of surfaces
StraightHits ==
    IF scene = "mirror" THEN {MirrorPoint}
    ELSE IF scene \in {"plain", "corridor"} THEN {MirrorPoint, MissPoint}
    ELSE Surfaces \cup {MissPoint}

\* the number of surfaces a path can meet in the scene
Depth == IF scene = "corridor" THEN SceneDepth + 1 ELSE SceneDepth

\* Intersector::trace for the scattered ray that is segment number n
ScatteredHits(n) ==
    IF scene = "mirror" \/ n <= Depth THEN StraightHits ELSE {MissPoint}

\* BSDF::sample: value (already multiplied by the cosine), probability, mode
BsdfSample(v, p, m) == [value |-> v, prob |-> p, mode |-> m]
SpecularSample == BsdfSample(Spectrum(One), DiracDelta, "Specular")
BsdfSamples ==
    IF scene = "corridor"
    THEN {SpecularSample, BsdfSample(Spectrum(Half), One, "Diffuse")}
    ELSE IF scene # "open" THEN {SpecularSample}
    ELSE { SpecularSample,
           BsdfSample(<<Half, One>>, One, "Diffuse"),
           BsdfSample(Spectrum(One), Half, "Glossy"),
           BsdfSample(Spectrum(Zero), One, "Diffuse"),
           BsdfSample(Spectrum(One), Zero, "Diffuse"),
           BsdfSample(<<Inf, One>>, Half, "Glossy") }

\* the test that rejects vertices outside the image plane, negated
InsideImage(ndc) == ndc[1] >= 0 /\ ndc[1] < 2 /\ ndc[2] >= 0 /\ ndc[2] < 2

\* Camera::project, in units of 1/2: the image plane is [0,2) x [0,2)
NdcPoints ==
    IF scene = "mirror" THEN {<<0 - 1, 1>>}
    ELSE IF scene = "corridor" THEN {<<1, 1>>, <<0 - 1, 1>>}
    ELSE {<<1, 1>>, <<0 - 1, 1>>, <<0, 2>>}

\* compute_transmission_between
Transmissions == {Zero, One}

\* what a vertex looks like from the camera; the transmission is computed
\* only for a vertex that projects inside the image
Views ==
    { v \in [ndc : NdcPoints, transmission : Transmissions] :
        InsideImage(v.ndc) \/ v.transmission = One }

\* what the light vertex looks like from the camera: the light of the open
\* scene is in front of the camera, seen or hidden
LightViews ==
    IF scene = "open" THEN { v \in Views : InsideImage(v.ndc) } ELSE Views

\* LightSampler::sample: the selection probability of the light sample
LightProbabilities == IF scene = "open" THEN {Zero, One} ELSE {One}

\* the visitor's answer to visit_vertex: go on or stop
VisitorAnswers == IF scene = "open" THEN BOOLEAN ELSE {TRUE}

Lengths == 0..SceneDepth

\* EDF::sample: the probability of the emission direction, and the flux
DirectionProbabilities == {One}
Fluxes == {Spectrum(One)}

(***************************************************************************)
(* The part of the state a walk changes, as a record, and its write-back.  *)
(***************************************************************************)
Cur ==
    [samples |-> samples, m_sample_count |-> m_sample_count, m_alpha |-> m_alpha,
     pc |-> pc, throughput |-> throughput, path_length |-> path_length,
     bsdf_mode |-> bsdf_mode, bsdf_prob |-> bsdf_prob,
     shading_point_ptr |-> shading_point_ptr,
     shading_point_index |-> shading_point_index,
     alpha_mask |-> alpha_mask, step |-> step,
     drew_alpha |-> drew_alpha, visited |-> visited, nVisit |-> nVisit,
     nEnv |-> nEnv, nScattered |-> nScattered, divByZero |-> divByZero,
     assertFailed |-> assertFailed, ray |-> ray, bsdf_value |-> bsdf_value,
     drew_rr |-> drew_rr, light_outside |-> light_outside,
     initial_alpha |-> initial_alpha, received |-> received]

Commit(o) ==
    /\ samples' = o.samples
    /\ m_sample_count' = o.m_sample_count
    /\ m_alpha' = o.m_alpha
    /\ pc' = o.pc
    /\ throughput' = o.throughput
    /\ path_length' = o.path_length
    /\ bsdf_mode' = o.bsdf_mode
    /\ bsdf_prob' = o.bsdf_prob
    /\ shading_point_ptr' = o.shading_point_ptr
    /\ shading_point_index' = o.shading_point_index
    /\ alpha_mask' = o.alpha_mask
    /\ step' = o.step
    /\ drew_alpha' = o.drew_alpha
    /\ visited' = o.visited
    /\ nVisit' = o.nVisit
    /\ nEnv' = o.nEnv
    /\ nScattered' = o.nScattered
    /\ divByZero' = o.divByZero
    /\ assertFailed' = o.assertFailed
    /\ ray' = o.ray
    /\ bsdf_value' = o.bsdf_value
    /\ drew_rr' = o.drew_rr
    /\ light_outside' = o.light_outside
    /\ initial_alpha' = o.initial_alpha
    /\ received' = o.received

(***************************************************************************)
(* PathVisitor of the light-tracing generator.                             *)
(***************************************************************************)
\* Sample: m_position, m_color[3], and the transmission factor that went
\* into m_color.rgb()
Sample(view) ==
    [m_position |-> view.ndc, alpha |-> One, transmission |-> view.transmission]

\* m_samples.push_back(sample); ++m_sample_count;
PushSample(o, view) ==
    [o EXCEPT !.samples = Append(@, Sample(view)), !.m_sample_count = @ + 1]

\* variant: the light vertex is not tested against the image plane
visit_light_vertex_Unclipped(o, view) ==
    IF view.transmission = Zero THEN o
    ELSE PushSample(o, view)

visit_light_vertex(o, view) ==
    IF ~InsideImage(view.ndc) THEN o
    ELSE IF view.transmission = Zero THEN o
    ELSE PushSample(o, view)

\* variant: the sample is pushed but not counted
visit_vertex_Uncounted(o, view) ==
    IF ~InsideImage(view.ndc) THEN o
    ELSE IF view.transmission = Zero THEN o
    ELSE [o EXCEPT !.m_alpha = SMul(@, o.throughput),
                   !.samples = Append(@, Sample(view))]

\* variant: the vertex is not tested for visibility from the camera
visit_vertex_Unoccluded(o, view) ==
    IF ~InsideImage(view.ndc) THEN o
    ELSE PushSample([o EXCEPT !.m_alpha = SMul(@, o.throughput)], view)

visit_vertex(o, view) ==
    IF ~InsideImage(view.ndc) THEN o
    ELSE IF view.transmission = Zero THEN o
    ELSE PushSample([o EXCEPT !.m_alpha = SMul(@, o.throughput)], view)

visit_environment(o) == o

(***************************************************************************)
(* PathTracer::trace.                                                      *)
(***************************************************************************)
Slot(i) == IF i = 0 THEN "shading_points[0]" ELSE "shading_points[1]"

\* variant: the same slot is written at every intersection
TraceInto_SameSlot(o) ==
    [o EXCEPT !.shading_point_ptr = Slot(o.shading_point_index)]

\* clear the free slot, trace the ray into it, make it the current point
TraceInto(o) ==
    [o EXCEPT !.shading_point_ptr = Slot(o.shading_point_index),
              !.shading_point_index = 1 - o.shading_point_index]

\* ShadingRay: m_org is the point the ray starts from, named by the shading
\* point that holds it; m_dir is 0 for the emission direction and n for the
\* direction sampled at the n-th vertex of the path; m_time
ShadingRay(org, dir, time) == [m_org |-> org, m_dir |-> dir, m_time |-> time]

\* the ray generate_samples starts the walk from
LightRay == ShadingRay("light_sample", 0, Zero)

\* variant: the cutoff ray leaves in the direction sampled at this vertex
CutoffRay_Deflected(o) ==
    [o EXCEPT !.ray = ShadingRay(o.shading_point_ptr, o.path_length, o.ray.m_time)]

\* const ShadingRay cutoff_ray(get_point(), ray.m_dir, ray.m_time, ~0)
CutoffRay(o) ==
    [o EXCEPT !.ray = ShadingRay(o.shading_point_ptr, o.ray.m_dir, o.ray.m_time)]

\* const ShadingRay scattered_ray(get_point(), incoming, ray.m_time, ~0)
ScatteredRay(o) ==
    [o EXCEPT !.ray = ShadingRay(o.shading_point_ptr, o.path_length, o.ray.m_time)]

\* leave the walk loop
Break(o, cause) == Commit([o EXCEPT !.pc = "traced", !.step = cause])

\* alpha_mask[0] < 1.0: a uniform sample is drawn
NeedsAlphaSample(alpha) == Less(alpha, One)

\* variant: s > alpha_mask[0]
IsCutOff_Strict(s, alpha) == Less(alpha, s)

\* s >= alpha_mask[0]: the surface is skipped
IsCutOff(s, alpha) == GreaterEq(s, alpha)

\* variant: every mode is accepted
Accepted_Always(mode) == TRUE

\* !(bsdf_mode & ScatteringModesMask), negated; a mode is a single bit
Accepted(mode) == mode \in ScatteringModesMask

\* if (bsdf_prob != BSDF::DiracDelta) bsdf_value /= bsdf_prob;
DivideByProb(value, prob) ==
    IF prob # DiracDelta THEN SDiv(value, prob) ELSE value

\* the division above is performed, and by zero
DividesByZero(prob) == prob # DiracDelta /\ prob = Zero

\* variant: the roulette is played at every bounce once a minimum is set
UseRoulette_AtEveryBounce(n) == m_rr_min_path_length > 0

UseRoulette(n) == m_rr_min_path_length > 0 /\ n >= m_rr_min_path_length

\* variant: the probability is not clamped to 1
scattering_prob_Unclamped(value) == max_value(value)

scattering_prob(value) == Min(max_value(value), One)

\* foundation::pass_rr(probability, s)
pass_rr(probability, s) == Less(s, probability)

\* variant: the arguments of pass_rr in the wrong order
RouletteSurvives_Swapped(value, s) == pass_rr(s, scattering_prob(value))

RouletteSurvives(value, s) == pass_rr(scattering_prob(value), s)

\* variant: path_length > m_max_path_length
ReachedMaxLength_Strict(n) == m_max_path_length > 0 /\ n > m_max_path_length

\* variant: the limit counts bounces, not segments
ReachedMaxLength_Bounces(n) == m_max_path_length > 0 /\ n - 1 >= m_max_path_length

ReachedMaxLength(n) == m_max_path_length > 0 /\ n >= m_max_path_length

ReachedHardLimit(n) == n >= HardPathLengthLimit

\* variant: the scattered ray is traced without ++path_length
Scatter_Uncounted(o) ==
    Commit(TraceInto([ScatteredRay(o) EXCEPT !.nScattered = @ + 1,
                                             !.step = "bounce"]))

\* ++path_length, construct the scattered ray and trace it
Scatter(o) ==
    Commit(TraceInto([ScatteredRay(o) EXCEPT !.path_length = @ + 1,
                                             !.nScattered = @ + 1,
                                             !.step = "bounce"]))

\* the user bounce limit, then the hard limit
Limits(o) ==
    IF ReachedMaxLength(o.path_length) THEN Break(o, "max_length")
    ELSE IF ReachedHardLimit(o.path_length) THEN Break(o, "hard_limit")
    ELSE Scatter(o)

\* Russian roulette on the probability-divided bsdf_value
Roulette(o, value) ==
    IF UseRoulette(o.path_length)
    THEN \E s \in Uniform :
            LET o1 == [o EXCEPT !.drew_rr = TRUE]
            IN  IF ~RouletteSurvives(value, s) THEN Break(o1, "rr_death")
                ELSE Limits([o1 EXCEPT
                        !.assertFailed = @ \/ ~Less(Zero, scattering_prob(value)),
                        !.throughput = SDiv(@, scattering_prob(value))])
    ELSE Limits(o)

\* after bsdf->sample has written bsdf_value, bsdf_prob and bsdf_mode
Sampled(o, bs) ==
    LET o1 == [o EXCEPT !.bsdf_mode = bs.mode, !.bsdf_prob = bs.prob,
                        !.bsdf_value = bs.value]
        divided == DivideByProb(bs.value, bs.prob)
    IN  IF ~Accepted(bs.mode) THEN Break(o1, "mode_rejected")
        ELSE Roulette([o1 EXCEPT !.bsdf_value = divided,
                                 !.throughput = SMul(@, divided),
                                 !.divByZero = @ \/ DividesByZero(bs.prob)],
                      divided)

\* variant: the visitor is told the mode and the probability the walk
\* started with
VisitVertex_InitialMode(o, view) ==
    [visit_vertex(o, view) EXCEPT
        !.visited = TRUE, !.nVisit = @ + 1,
        !.received = <<"visit_vertex", "Specular", DiracDelta>>]

\* m_path_visitor.visit_vertex(..., bsdf_mode, bsdf_prob, throughput)
VisitVertex(o, view) ==
    [visit_vertex(o, view) EXCEPT
        !.visited = TRUE, !.nVisit = @ + 1,
        !.received = <<"visit_vertex", o.bsdf_mode, o.bsdf_prob>>]

\* m_path_visitor.visit_environment(..., bsdf_mode, throughput)
VisitEnvironment(o) ==
    [visit_environment(o) EXCEPT
        !.nEnv = @ + 1, !.received = <<"visit_environment", o.bsdf_mode>>]

\* variant: the BSDF is sampled before the visitor's answer is looked at
Vertex_SamplesFirst(o, point) ==
    IF ~point.bsdf THEN Break(o, "no_bsdf")
    ELSE \E view \in Views, go \in VisitorAnswers, bs \in BsdfSamples :
            LET o1 == VisitVertex(o, view)
            IN  IF ~go
                THEN Break([o1 EXCEPT !.bsdf_mode = bs.mode,
                                      !.bsdf_prob = bs.prob], "visitor_stop")
                ELSE Sampled(o1, bs)

\* variant: the visitor is called before the BSDF is retrieved
Vertex_VisitsUnbound(o, point) ==
    \E view \in Views, go \in VisitorAnswers :
        LET o1 == VisitVertex(o, view)
        IN  IF ~point.bsdf THEN Break(o1, "no_bsdf")
            ELSE IF ~go THEN Break(o1, "visitor_stop")
            ELSE \E bs \in BsdfSamples : Sampled(o1, bs)

\* retrieve the BSDF, call the visitor, sample the BSDF
Vertex(o, point) ==
    IF ~point.bsdf THEN Break(o, "no_bsdf")
    ELSE \E view \in Views, go \in VisitorAnswers :
            LET o1 == VisitVertex(o, view)
            IN  IF ~go THEN Break(o1, "visitor_stop")
                ELSE \E bs \in BsdfSamples : Sampled(o1, bs)

\* evaluate the alpha mask and skip the surface or go on with it
AlphaMasking(o, point) ==
    LET o1 == [o EXCEPT !.alpha_mask = point.alpha]
    IN  IF NeedsAlphaSample(o1.alpha_mask)
        THEN \E s \in Uniform :
                LET o2 == [o1 EXCEPT !.drew_alpha = TRUE]
                IN  IF IsCutOff(s, o2.alpha_mask)
                    THEN Commit(TraceInto([CutoffRay(o2) EXCEPT !.step = "retry"]))
                    ELSE Vertex(o2, point)
        ELSE Vertex(o1, point)

\* What *shading_point_ptr holds: the intersector wrote it when the ray was
\* traced, the walk reads it first at the top of the next iteration, and
\* that is where its content is drawn.
CurrentHits ==
    IF step = "bounce" THEN ScatteredHits(path_length) ELSE StraightHits

\* one iteration of while (true)
TraceIteration ==
    /\ pc = "trace"
    /\ UNCHANGED <<cfgVars, genVars, iblVars, replayVars, pyVars>>
    /\ \E point \in CurrentHits :
        LET o == [Cur EXCEPT !.drew_alpha = FALSE, !.visited = FALSE,
                             !.drew_rr = FALSE, !.bsdf_value = Spectrum(One),
                             !.received = <<>>]
        IN  IF ~point.hit
            THEN Break(VisitEnvironment(o), "miss")
            ELSE IF ~point.material THEN Break(o, "no_material")
            ELSE IF ~point.surface_shader THEN Break(o, "no_surface_shader")
            ELSE AlphaMasking(o, point)

(***************************************************************************)
(* LightTracingSampleGenerator::generate_samples.                          *)
(***************************************************************************)
\* initial_alpha /= light_sample.m_probability * emission_direction_probability
InitialAlpha(flux, light_prob, direction_prob) ==
    SDiv(flux, Mul(light_prob, direction_prob))

\* variant: path_length starts at 0
TraceEntry_FromZero(o) ==
    [o EXCEPT !.shading_point_ptr = "shading_point",
              !.shading_point_index = 0, !.throughput = Spectrum(One),
              !.path_length = 0, !.bsdf_mode = "Specular",
              !.bsdf_prob = DiracDelta, !.pc = "trace", !.step = "begin",
              !.drew_alpha = FALSE, !.visited = FALSE, !.nVisit = 0,
              !.nEnv = 0, !.nScattered = 0, !.assertFailed = FALSE,
              !.ray = LightRay, !.bsdf_value = Spectrum(One),
              !.drew_rr = FALSE, !.received = <<>>]

\* the locals of trace before the loop
TraceEntry(o) ==
    [o EXCEPT !.shading_point_ptr = "shading_point",
              !.shading_point_index = 0, !.throughput = Spectrum(One),
              !.path_length = 1, !.bsdf_mode = "Specular",
              !.bsdf_prob = DiracDelta, !.pc = "trace", !.step = "begin",
              !.drew_alpha = FALSE, !.visited = FALSE, !.nVisit = 0,
              !.nEnv = 0, !.nScattered = 0, !.assertFailed = FALSE,
              !.ray = LightRay, !.bsdf_value = Spectrum(One),
              !.drew_rr = FALSE, !.received = <<>>]

\* Population::insert
Insert(population, x) == Append(population, x)

\* how many times the renderer calls generate_samples
Invocations == IF scene = "plain" THEN MaxInvocations ELSE 1

\* from the entry of generate_samples to the entry of the walk loop
GenerateSamplesBegin ==
    /\ pc = "idle"
    /\ m_path_count < Invocations
    /\ \E light_prob \in LightProbabilities, direction_prob \in DirectionProbabilities,
          flux \in Fluxes, view \in LightViews :
          LET visitor == [Cur EXCEPT
                  !.m_sample_count = 0,
                  !.m_alpha = InitialAlpha(flux, light_prob, direction_prob),
                  !.initial_alpha = InitialAlpha(flux, light_prob, direction_prob),
                  !.light_outside = ~InsideImage(view.ndc),
                  !.divByZero = (Mul(light_prob, direction_prob) = Zero)]
          IN  Commit(TraceEntry(visit_light_vertex(visitor, view)))
    /\ invocations' = invocations + 1
    /\ samples0' = samples
    /\ UNCHANGED <<cfgVars, m_path_count, m_path_length, ret, iblVars, replayVars, pyVars>>

\* The locals of trace and of the visitor once they are out of scope;
\* path_length stays, as the local of generate_samples that holds the
\* value trace returned.
OutOfScope(o) ==
    [o EXCEPT !.m_sample_count = 0, !.m_alpha = Spectrum(One),
              !.shading_point_ptr = "shading_point",
              !.shading_point_index = 0, !.throughput = Spectrum(One),
              !.bsdf_mode = "Specular",
              !.bsdf_prob = DiracDelta, !.alpha_mask = One,
              !.step = "begin", !.drew_alpha = FALSE, !.visited = FALSE,
              !.nVisit = 0, !.nEnv = 0, !.nScattered = 0,
              !.divByZero = FALSE, !.assertFailed = FALSE,
              !.ray = LightRay, !.bsdf_value = Spectrum(One),
              !.drew_rr = FALSE, !.light_outside = FALSE,
              !.initial_alpha = Spectrum(One), !.received = <<>>]

\* variant: the statistics record the bounces, one less than the length
GenerateSamplesEnd_Bounces ==
    /\ pc = "traced"
    /\ m_path_count' = m_path_count + 1
    /\ m_path_length' = Insert(m_path_length, path_length - 1)
    /\ ret' = m_sample_count
    /\ Commit(OutOfScope([Cur EXCEPT !.pc = "idle"]))
    /\ UNCHANGED <<cfgVars, invocations, samples0, iblVars, replayVars, pyVars>>

\* from the return of trace to the return of generate_samples
GenerateSamplesEnd ==
    /\ pc = "traced"
    /\ m_path_count' = m_path_count + 1
    /\ m_path_length' = Insert(m_path_length, path_length)
    /\ ret' = m_sample_count
    /\ Commit(OutOfScope([Cur EXCEPT !.pc = "idle"]))
    /\ UNCHANGED <<cfgVars, invocations, samples0, iblVars, replayVars, pyVars>>

(***************************************************************************)
(* Exact arithmetic for the image-based-lighting estimator, where values   *)
(* are added: a number is a fraction <<n, d>> in lowest terms with d >= 0; *)
(* d = 0 gives the IEEE-754 specials <<1, 0>> (Inf), <<0 - 1, 0>> (-Inf)   *)
(* and <<0, 0>> (NaN).  Rounding is not modelled.  A Spectrum has one band *)
(* here.                                                                   *)
(***************************************************************************)
RECURSIVE Gcd(_, _)
Gcd(a, b) == IF b = 0 THEN a ELSE Gcd(b, a % b)

Abs(x) == IF x < 0 THEN 0 - x ELSE x

Sign(x) == IF x < 0 THEN 0 - 1 ELSE IF x > 0 THEN 1 ELSE 0

Ratio(n, d) ==
    IF d = 0 THEN <<Sign(n), 0>>
    ELSE LET g == Gcd(Abs(n), Abs(d))
         IN  <<(Sign(d) * n) \div g, (Sign(d) * d) \div g>>

RZero == Ratio(0, 1)
ROne == Ratio(1, 1)
RHalf == Ratio(1, 2)
RNaN == Ratio(0, 0)

\* static_cast<float>(count)
RInt(n) == Ratio(n, 1)

RMul(a, b) == Ratio(a[1] * b[1], a[2] * b[2])

RDiv(a, b) == Ratio(a[1] * b[2], a[2] * b[1])

RAdd(a, b) ==
    IF a[2] = 0 /\ b[2] = 0 THEN (IF a = b THEN a ELSE RNaN)
    ELSE Ratio(a[1] * b[2] + b[1] * a[2], a[2] * b[2])

\* a <= b (false as soon as one side is NaN)
RLeq(a, b) == a # RNaN /\ b # RNaN /\ a[1] * b[2] <= b[1] * a[2]

\* BSDF::DiracDelta as a double: a value no probability density takes
RDiracDelta == Ratio(0 - 1, 1)

(***************************************************************************)
(* compute_image_based_lighting (renderer/kernel/lighting/                 *)
(* imagebasedlighting.cpp).  The BSDF, the environment EDF, the Tracer and *)
(* the sampling context are external collaborators.                        *)
(***************************************************************************)
\* the sample counts a caller asks for
SampleCounts == 0..MaxSamples

\* BSDF::sample: mode, probability and value (multiplied by the cosine)
IblBsdfSamples ==
    { [mode |-> "Diffuse", prob |-> ROne, value |-> ROne],
      [mode |-> "Diffuse", prob |-> RHalf, value |-> RHalf],
      [mode |-> "Glossy", prob |-> RHalf, value |-> ROne],
      [mode |-> "Specular", prob |-> RDiracDelta, value |-> ROne] }

\* Tracer::trace toward the environment: whether an opaque occluder was hit,
\* the transmission factor, and how many numbers the tracer drew from the
\* sampling context it was handed (it draws when it crosses a surface with
\* an alpha mask)
Occlusions ==
    { [hit |-> TRUE, transmission |-> RZero, draws |-> 0],
      [hit |-> FALSE, transmission |-> ROne, draws |-> 0],
      [hit |-> FALSE, transmission |-> RHalf, draws |-> 1] }

\* EnvironmentEDF::evaluate: radiance and probability density of a direction
EnvEvaluations ==
    { [value |-> ROne, prob |-> ROne],
      [value |-> ROne, prob |-> RHalf] }

\* EnvironmentEDF::sample: radiance and probability density of the direction
EnvSamples == { [value |-> ROne, prob |-> RHalf] }

\* BSDF::evaluate: whether the BSDF is defined for the direction, its value
\* and its probability density
BsdfEvaluations ==
    { [defined |-> FALSE, value |-> RZero, prob |-> RZero],
      [defined |-> TRUE, value |-> ROne, prob |-> ROne],
      [defined |-> TRUE, value |-> RHalf, prob |-> RHalf] }

\* foundation::mis_power2(q1, q2): the power heuristic with exponent 2
mis_power2(q1, q2) ==
    RDiv(RMul(q1, q1), RAdd(RMul(q1, q1), RMul(q2, q2)))

\* the MIS weight of the BSDF-sampling technique
MisWeightBsdf(nb, pb, ne, pe) ==
    IF pb = RDiracDelta THEN ROne
    ELSE mis_power2(RMul(RInt(nb), pb), RMul(RInt(ne), pe))

\* variant: the arguments of mis_power2 in the order of the other technique
MisWeightEnv_SameOrder(nb, pb, ne, pe) ==
    mis_power2(RMul(RInt(nb), pb), RMul(RInt(ne), pe))

\* the MIS weight of the environment-sampling technique
MisWeightEnv(nb, pb, ne, pe) ==
    mis_power2(RMul(RInt(ne), pe), RMul(RInt(nb), pb))

\* variant: only specular samples are ignored
Kept_NotSpecular(mode) == mode # "Specular"

\* if (bsdf_mode != BSDF::Diffuse) continue;  negated
Kept(mode) == mode = "Diffuse"

\* variant: the estimate is divided whatever the count
Averaged_Always(value, count) == RDiv(value, RInt(count))

\* if (count > 1) radiance /= static_cast<float>(count);
Averaged(value, count) ==
    IF count > 1 THEN RDiv(value, RInt(count)) ELSE value

\* What the last loop iteration did: the mode of the BSDF sample ("none" in
\* the environment sampling), the context its occlusion test was handed
\* ("none" when no occlusion ray was traced), whether it evaluated the
\* environment, whether it computed a MIS weight and for which densities.
Drawn(mode, context, evaluated, weighed, pb, pe) ==
    [mode |-> mode, context |-> context, evaluated |-> evaluated,
     weighed |-> weighed, bsdf_prob |-> pb, env_prob |-> pe]
NothingDrawn == Drawn("none", "none", FALSE, FALSE, RZero, RZero)

\* the estimator is not running
IblIdle ==
    /\ ibl_pc = "idle"
    /\ bsdf_sample_count = 0
    /\ env_sample_count = 0
    /\ sample_index = 0
    /\ radiance = RZero
    /\ radiance_env_sampling = RZero
    /\ sampling_context = 0
    /\ drawn = NothingDrawn
    /\ mis_weight = ROne
    /\ contribs_bsdf = <<>>
    /\ contribs_env = <<>>

\* the call of compute_image_based_lighting, up to the loop of
\* compute_ibl_bsdf_sampling; the caller's radiance holds anything
ComputeImageBasedLighting ==
    /\ ibl_pc = "idle"
    /\ \E nb \in SampleCounts, ne \in SampleCounts :
          /\ bsdf_sample_count' = nb
          /\ env_sample_count' = ne
    /\ radiance' = RZero
    /\ sample_index' = 0
    /\ ibl_pc' = "bsdf_sampling"
    /\ UNCHANGED <<radiance_env_sampling, sampling_context, drawn, mis_weight,
                   contribs_bsdf, contribs_env>>
    /\ UNCHANGED <<cfgVars, genVars, walkVars, replayVars, pyVars>>

\* one iteration of the loop of compute_ibl_bsdf_sampling
BsdfSamplingIteration ==
    /\ ibl_pc = "bsdf_sampling"
    /\ sample_index < bsdf_sample_count
    /\ sample_index' = sample_index + 1
    /\ \E bs \in IblBsdfSamples :
        IF ~Kept(bs.mode)
        THEN \* bsdf.sample draws from sampling_context
             /\ sampling_context' = sampling_context + 1
             /\ drawn' = Drawn(bs.mode, "none", FALSE, FALSE, bs.prob, RZero)
             /\ UNCHANGED <<radiance, mis_weight, contribs_bsdf>>
        ELSE \E occlusion \in Occlusions :
            \* the tracer is handed sampling_context itself
            /\ sampling_context' = sampling_context + 1 + occlusion.draws
            /\ IF occlusion.hit
               THEN /\ drawn' = Drawn(bs.mode, "sampling_context", FALSE, FALSE,
                                      bs.prob, RZero)
                    /\ UNCHANGED <<radiance, mis_weight, contribs_bsdf>>
               ELSE \E env \in EnvEvaluations :
                    LET weight == MisWeightBsdf(bsdf_sample_count, bs.prob,
                                                env_sample_count, env.prob)
                        env_value ==
                            RMul(RMul(env.value,
                                      RDiv(RMul(occlusion.transmission, weight),
                                           bs.prob)),
                                 bs.value)
                    IN  /\ mis_weight' = weight
                        /\ drawn' = Drawn(bs.mode, "sampling_context", TRUE, TRUE,
                                          bs.prob, env.prob)
                        /\ radiance' = RAdd(radiance, env_value)
                        /\ contribs_bsdf' = Append(contribs_bsdf, env_value)
    /\ UNCHANGED <<ibl_pc, bsdf_sample_count, env_sample_count,
                   radiance_env_sampling, contribs_env>>
    /\ UNCHANGED <<cfgVars, genVars, walkVars, replayVars, pyVars>>

\* from the end of the loop of compute_ibl_bsdf_sampling to the loop of
\* compute_ibl_environment_sampling
BsdfSamplingEnd ==
    /\ ibl_pc = "bsdf_sampling"
    /\ sample_index >= bsdf_sample_count
    /\ radiance' = Averaged(radiance, bsdf_sample_count)
    /\ radiance_env_sampling' = RZero
    \* sampling_context.split_in_place(2, env_sample_count)
    /\ sampling_context' = sampling_context + 1
    /\ sample_index' = 0
    /\ drawn' = NothingDrawn
    /\ ibl_pc' = "env_sampling"
    /\ UNCHANGED <<bsdf_sample_count, env_sample_count, mis_weight,
                   contribs_bsdf, contribs_env>>
    /\ UNCHANGED <<cfgVars, genVars, walkVars, replayVars, pyVars>>

\* one iteration of the loop of compute_ibl_environment_sampling
EnvSamplingIteration ==
    /\ ibl_pc = "env_sampling"
    /\ sample_index < env_sample_count
    /\ sample_index' = sample_index + 1
    \* next_vector2 draws from sampling_context; the tracer is handed
    \* child_sampling_context, a copy
    /\ sampling_context' = sampling_context + 1
    /\ \E env \in EnvSamples, occlusion \in Occlusions :
        IF occlusion.hit
        THEN /\ drawn' = Drawn("none", "child_sampling_context", FALSE, FALSE,
                               RZero, env.prob)
             /\ UNCHANGED <<radiance_env_sampling, mis_weight, contribs_env>>
        ELSE \E bsdf \in BsdfEvaluations :
            IF ~bsdf.defined
            THEN /\ drawn' = Drawn("none", "child_sampling_context", FALSE, FALSE,
                                   RZero, env.prob)
                 /\ UNCHANGED <<radiance_env_sampling, mis_weight, contribs_env>>
            ELSE LET weight == MisWeightEnv(bsdf_sample_count, bsdf.prob,
                                            env_sample_count, env.prob)
                     env_value ==
                         RMul(RMul(env.value,
                                   RMul(RDiv(occlusion.transmission, env.prob),
                                        weight)),
                              bsdf.value)
                 IN  /\ mis_weight' = weight
                     /\ drawn' = Drawn("none", "child_sampling_context", FALSE, TRUE,
                                       bsdf.prob, env.prob)
                     /\ radiance_env_sampling' = RAdd(radiance_env_sampling, env_value)
                     /\ contribs_env' = Append(contribs_env, env_value)
    /\ UNCHANGED <<ibl_pc, bsdf_sample_count, env_sample_count, radiance,
                   contribs_bsdf>>
    /\ UNCHANGED <<cfgVars, genVars, walkVars, replayVars, pyVars>>

\* from the end of the loop of compute_ibl_environment_sampling to the
\* return of compute_image_based_lighting
EnvSamplingEnd ==
    /\ ibl_pc = "env_sampling"
    /\ sample_index >= env_sample_count
    /\ radiance_env_sampling' = Averaged(radiance_env_sampling, env_sample_count)
    /\ radiance' = RAdd(radiance, Averaged(radiance_env_sampling, env_sample_count))
    /\ drawn' = NothingDrawn
    /\ ibl_pc' = "done"
    /\ UNCHANGED <<bsdf_sample_count, env_sample_count, sample_index,
                   sampling_context, mis_weight, contribs_bsdf, contribs_env>>
    /\ UNCHANGED <<cfgVars, genVars, walkVars, replayVars, pyVars>>

(***************************************************************************)
(* LightTracingSampleGenerator::reset, on two generators built on the same *)
(* scene: each is used, reset, and used again.  What the collaborators     *)
(* answer in generate_samples is a function of the numbers the sampling    *)
(* context supplies, which it takes from m_rng and sequence_index.         *)
(***************************************************************************)
Runs == {1, 2}

\* the sequence_index values a renderer passes
SequenceIndices == {0, 1}

\* MersenneTwister(): the state of a twister built without a seed
Seed == 0

\* MersenneTwister: the state after one more number was taken
Twist(r) == (r + 1) % RngPeriod

\* SamplingContext: the number a context built on m_rng for the instance
\* sequence_index supplies when the twister is in state r
Draw(r, sequence_index) == (r * r + sequence_index) % RngPeriod

\* One deterministic walk: at the vertex number n the number supplied
\* decides whether the ray hits and whether the camera sees the vertex;
\* every vertex takes a number from the twister.
RECURSIVE ReplayTrace(_, _, _, _)
ReplayTrace(r, sequence_index, n, emitted) ==
    LET x == Draw(r, sequence_index)
    IN  IF x % 3 = 0 \/ n > SceneDepth
        THEN [m_rng |-> Twist(r), samples |-> emitted, path_length |-> n]
        ELSE ReplayTrace(Twist(r), sequence_index, n + 1,
                         IF x % 2 = 1 THEN Append(emitted, <<n, x>>) ELSE emitted)

\* generate_samples(sequence_index) on a generator whose twister is in the
\* state r, the light vertex first: the state it leaves the twister in, the
\* samples it appends and the value it returns
ReplayGenerateSamples(r, sequence_index) ==
    LET s == Draw(r, sequence_index)
        walk == ReplayTrace(Twist(r), sequence_index, 1,
                            IF s % 2 = 0 THEN <<<<0, s>>>> ELSE <<>>)
    IN  [m_rng |-> walk.m_rng, samples |-> walk.samples,
         ret |-> Len(walk.samples)]

\* variant: reset leaves the twister as it is
reset_KeepsStream(run) ==
    /\ was_reset' = [was_reset EXCEPT ![run] = TRUE]
    /\ replayed' = [replayed EXCEPT ![run] = <<>>]
    /\ rng_at_reset' = [rng_at_reset EXCEPT ![run] = m_rng[run]]
    /\ UNCHANGED <<m_rng, script>>

\* SampleGeneratorBase::reset(); m_rng = MersenneTwister();
reset(run) ==
    /\ m_rng' = [m_rng EXCEPT ![run] = Seed]
    /\ was_reset' = [was_reset EXCEPT ![run] = TRUE]
    /\ replayed' = [replayed EXCEPT ![run] = <<>>]
    /\ rng_at_reset' = [rng_at_reset EXCEPT ![run] = m_rng[run]]
    /\ UNCHANGED script

\* the generators before any call
ReplayIdle ==
    /\ m_rng = [run \in Runs |-> Seed]
    /\ was_reset = [run \in Runs |-> FALSE]
    /\ replayed = [run \in Runs |-> <<>>]
    /\ rng_at_reset = [run \in Runs |-> Seed]
    /\ script = <<>>

\* a generate_samples call before the reset: any sequence_index
GenerateBeforeReset ==
    /\ \E run \in Runs, sequence_index \in SequenceIndices :
          /\ ~was_reset[run]
          /\ m_rng' = [m_rng EXCEPT
                ![run] = ReplayGenerateSamples(m_rng[run], sequence_index).m_rng]
    /\ UNCHANGED <<was_reset, replayed, rng_at_reset, script>>
    /\ UNCHANGED <<cfgVars, genVars, walkVars, iblVars, pyVars>>

\* the renderer resets a generator once
Reset ==
    /\ \E run \in Runs : ~was_reset[run] /\ reset(run)
    /\ UNCHANGED <<cfgVars, genVars, walkVars, iblVars, pyVars>>

\* A generate_samples call after the reset.  The two runs make the same
\* sequence of calls: the run that is ahead chooses the sequence_index, the
\* other one follows.
GenerateAfterReset ==
    /\ \E run \in Runs :
          /\ was_reset[run]
          /\ Len(replayed[run]) < MaxInvocations
          /\ \E sequence_index \in SequenceIndices :
                LET k == Len(replayed[run]) + 1
                    out == ReplayGenerateSamples(m_rng[run], sequence_index)
                IN  /\ k <= Len(script) => sequence_index = script[k]
                    /\ script' = IF k <= Len(script) THEN script
                                 ELSE Append(script, sequence_index)
                    /\ m_rng' = [m_rng EXCEPT ![run] = out.m_rng]
                    /\ replayed' = [replayed EXCEPT
                          ![run] = Append(@, [samples |-> out.samples,
                                              ret |-> out.ret])]
    /\ UNCHANGED <<was_reset, rng_at_reset>>
    /\ UNCHANGED <<cfgVars, genVars, walkVars, iblVars, pyVars>>

(***************************************************************************)
(* IRendererControllerWrapper: the renderer thread calls a callback, which *)
(* takes Python's global interpreter lock, calls the Python override and   *)
(* handles the error it may raise.  Another Python thread competes for the *)
(* lock.                                                                   *)
(***************************************************************************)
Callbacks ==
    {"on_rendering_begin", "on_rendering_success", "on_rendering_abort",
     "on_frame_begin", "on_frame_end", "on_progress"}

\* IRendererController::Status
Statuses ==
    {"ContinueRendering", "TerminateRendering", "AbortRendering",
     "RestartRendering", "ReinitializeRendering"}

\* the exceptions a Python override can raise
PythonErrors == {"Exception", "SystemExit"}

\* get_override(name)(): the override returns, or raises and leaves the
\* error indicator set (boost::python then throws error_already_set)
Overrides(name) ==
    [raises : {TRUE}, error : PythonErrors, value : {"none"}]
        \cup [raises : {FALSE}, error : {"none"},
              value : IF name = "on_progress" THEN Statuses ELSE {"void"}]

\* what the catch block returns after PyErr_Print()
Handled(name) ==
    IF name = "on_progress" THEN "AbortRendering" ELSE "void"

\* the wrapper before any callback
PyIdle ==
    /\ py_pc = "renderer"
    /\ gil = "free"
    /\ callback = "none"
    /\ error_indicator = "none"
    /\ result = "none"
    /\ raised = FALSE
    /\ nCallbacks = 0

\* the renderer calls one of the callbacks of the controller
CallbackBegin ==
    /\ py_pc = "renderer"
    /\ nCallbacks < MaxCallbacks
    /\ \E name \in Callbacks : callback' = name
    /\ py_pc' = "entered"
    /\ result' = "none"
    /\ raised' = FALSE
    /\ nCallbacks' = nCallbacks + 1
    /\ UNCHANGED <<gil, error_indicator>>
    /\ UNCHANGED <<cfgVars, genVars, walkVars, iblVars, replayVars>>

\* ScopedGILLock lock; the constructor waits for the lock
ScopedGILLock ==
    /\ py_pc = "entered"
    /\ gil = "free"
    /\ gil' = "callback"
    /\ py_pc' = "locked"
    /\ UNCHANGED <<callback, error_indicator, result, raised, nCallbacks>>
    /\ UNCHANGED <<cfgVars, genVars, walkVars, iblVars, replayVars>>

\* try { get_override(name)(); }
CallOverride ==
    /\ py_pc = "locked"
    /\ \E override \in Overrides(callback) :
          IF override.raises
          THEN /\ error_indicator' = override.error
               /\ raised' = TRUE
               /\ py_pc' = "thrown"
               /\ UNCHANGED result
          ELSE /\ result' = override.value
               /\ py_pc' = "returning"
               /\ UNCHANGED <<error_indicator, raised>>
    /\ UNCHANGED <<gil, callback, nCallbacks>>
    /\ UNCHANGED <<cfgVars, genVars, walkVars, iblVars, replayVars>>

\* catch (bpy::error_already_set) { PyErr_Print(); ... }: PyErr_Print
\* prints the traceback and clears the error indicator, unless the error is
\* SystemExit: then it ends the process
CatchErrorAlreadySet ==
    /\ py_pc = "thrown"
    /\ IF error_indicator = "SystemExit"
       THEN /\ py_pc' = "exited"
            /\ UNCHANGED <<error_indicator, result>>
       ELSE /\ error_indicator' = "none"
            /\ result' = Handled(callback)
            /\ py_pc' = "returning"
    /\ UNCHANGED <<gil, callback, raised, nCallbacks>>
    /\ UNCHANGED <<cfgVars, genVars, walkVars, iblVars, replayVars>>

\* the callback returns: lock goes out of scope
CallbackEnd ==
    /\ py_pc = "returning"
    /\ gil' = "free"
    /\ py_pc' = "renderer"
    /\ UNCHANGED <<callback, error_indicator, result, raised, nCallbacks>>
    /\ UNCHANGED <<cfgVars, genVars, walkVars, iblVars, replayVars>>

\* another Python thread takes the lock while it is free
PythonThreadAcquires ==
    /\ py_pc # "exited"
    /\ gil = "free"
    /\ gil' = "python_thread"
    /\ UNCHANGED <<py_pc, callback, error_indicator, result, raised, nCallbacks>>
    /\ UNCHANGED <<cfgVars, genVars, walkVars, iblVars, replayVars>>

\* and gives it back
PythonThreadReleases ==
    /\ py_pc # "exited"
    /\ gil = "python_thread"
    /\ gil' = "free"
    /\ UNCHANGED <<py_pc, callback, error_indicator, result, raised, nCallbacks>>
    /\ UNCHANGED <<cfgVars, genVars, walkVars, iblVars, replayVars>>

(***************************************************************************)
(* The system.                                                             *)
(***************************************************************************)
\* every configuration of the tracer in every scene
Configurations ==
    ({"open", "plain", "mirror", "corridor"} \X Lengths \X Lengths \X {Modes})
        \cup {<<"open", 0, 0, {"Diffuse"}>>}

Init_cfg ==
    \E c \in Configurations :
        /\ scene = c[1]
        /\ m_rr_min_path_length = c[2]
        /\ m_max_path_length = c[3]
        /\ ScatteringModesMask = c[4]

Init ==
    /\ Init_cfg
    /\ m_path_count = 0
    /\ m_path_length = <<>>
    /\ samples = <<>>
    /\ m_sample_count = 0
    /\ m_alpha = Spectrum(One)
    /\ pc = "idle"
    /\ throughput = Spectrum(One)
    /\ path_length = 1
    /\ bsdf_mode = "Specular"
    /\ bsdf_prob = DiracDelta
    /\ shading_point_ptr = "shading_point"
    /\ shading_point_index = 0
    /\ alpha_mask = One
    /\ ret = 0
    /\ step = "begin"
    /\ drew_alpha = FALSE
    /\ visited = FALSE
    /\ nVisit = 0
    /\ nEnv = 0
    /\ nScattered = 0
    /\ divByZero = FALSE
    /\ assertFailed = FALSE
    /\ invocations = 0
    /\ samples0 = <<>>
    /\ ray = LightRay
    /\ bsdf_value = Spectrum(One)
    /\ drew_rr = FALSE
    /\ light_outside = FALSE
    /\ initial_alpha = Spectrum(One)
    /\ received = <<>>
    /\ IblIdle
    /\ ReplayIdle
    /\ PyIdle

Next == GenerateSamplesBegin \/ TraceIteration \/ GenerateSamplesEnd

Spec == Init /\ [][Next]_vars

\* The walk loop is run by one thread: an iteration that can run does run.
\* The configuration without user limits: no Russian roulette, no maximum.
UnlimitedInit ==
    Init /\ scene = "open" /\ m_rr_min_path_length = 0 /\ m_max_path_length = 0
FairSpec == UnlimitedInit /\ [][Next]_vars /\ WF_vars(Next)

\* One call of the image-based-lighting estimator.
IblNext ==
    \/ ComputeImageBasedLighting
    \/ BsdfSamplingIteration
    \/ BsdfSamplingEnd
    \/ EnvSamplingIteration
    \/ EnvSamplingEnd
\* the estimator and the replayed generators run beside an idle walk
IdleInit == UnlimitedInit /\ ScatteringModesMask = Modes
IblSpec == IdleInit /\ [][IblNext]_vars

\* Two generators, each used, reset and used again.
ReplayNext == GenerateBeforeReset \/ Reset \/ GenerateAfterReset
ReplaySpec == IdleInit /\ [][ReplayNext]_vars

\* The callbacks of the renderer controller, forwarded to Python.
PyNext ==
    \/ CallbackBegin
    \/ ScopedGILLock
    \/ CallOverride
    \/ CatchErrorAlreadySet
    \/ CallbackEnd
    \/ PythonThreadAcquires
    \/ PythonThreadReleases
PySpec == IdleInit /\ [][PyNext]_vars

(***************************************************************************)
(* Properties.                                                             *)
(***************************************************************************)
InWalk == pc \in {"trace", "traced"}

\* C1: every call to PathTracer::trace terminates, whatever the intersector,
\* the alpha mask, the BSDF sampler and the visitor answer and whatever the
\* configuration: a walk that is in its loop eventually leaves it.
C1_TraceTerminates == (pc = "trace") ~> (pc = "traced")

\* C2 (as claimed): the value trace returns equals the number of scattered
\* rays the walk constructed and traced.
C2_ReturnsScatteredRays == pc = "traced" => path_length = nScattered

\* C2 (amended): the value trace returns is one more than the number of
\* scattered rays the walk constructed and traced (it counts the segments of
\* the path, the ray the walk started from included).
C2_ReturnsSegments == pc = "traced" => path_length = nScattered + 1

C2_Witness == pc = "traced" /\ nScattered = 2 /\ step = "miss"

\* C3: the path length is always at least 1 and at most 10,000 and, when
\* m_max_path_length > 0, at most m_max_path_length; since scattering a ray
\* increments it, no ray is scattered at the maximum or at the ceiling.
C3_PathLengthBounded ==
    InWalk =>
        /\ path_length >= 1
        /\ path_length <= HardPathLengthLimit
        /\ nScattered < HardPathLengthLimit
        /\ m_max_path_length > 0 =>
              (path_length <= m_max_path_length /\ nScattered < m_max_path_length)

C3_Witness ==
    pc = "traced" /\ step = "hard_limit" /\ path_length = HardPathLengthLimit

\* C4 (as claimed): with m_max_path_length = 1 and m_rr_min_path_length = 0
\* a trace has called visit_vertex exactly once when the walk ends.
C4_ExactlyOneVertex ==
    (pc = "traced" /\ m_max_path_length = 1 /\ m_rr_min_path_length = 0)
        => nVisit = 1

\* C4 (amended): with m_max_path_length = 1 and m_rr_min_path_length = 0 a
\* trace calls visit_vertex at most once and never scatters a ray; it has
\* called it exactly once unless the walk ended before any vertex was
\* visited (the ray missed, or the material, the surface shader or the BSDF
\* was unbound).
C4_AtMostOneVertex ==
    (InWalk /\ m_max_path_length = 1 /\ m_rr_min_path_length = 0) =>
        /\ nVisit <= 1
        /\ nScattered = 0
        /\ path_length = 1
        /\ pc = "traced" =>
              (nVisit = 1 <=>
                  step \notin {"miss", "no_material", "no_surface_shader", "no_bsdf"})

C4_Witness ==
    /\ pc = "traced" /\ m_max_path_length = 1 /\ m_rr_min_path_length = 0
    /\ nVisit = 1 /\ step = "max_length"

\* the last iteration evaluated the alpha mask
AlphaEvaluated ==
    InWalk /\ step \notin {"begin", "miss", "no_material", "no_surface_shader"}

\* C5: at a hit whose alpha mask is 1 no uniform sample is drawn and the
\* transparency retry is not taken; at a hit whose alpha mask is 0 the retry
\* is taken whatever sample is drawn, and visit_vertex is not called.
C5_OpaqueNeverTransparentAlways ==
    AlphaEvaluated =>
        /\ alpha_mask = One => (~drew_alpha /\ step # "retry")
        /\ alpha_mask = Zero => (drew_alpha /\ step = "retry" /\ ~visited)

C5_Witness == pc = "trace" /\ step = "retry" /\ alpha_mask = Zero /\ nVisit = 1

\* C6: at every bounce of every path each component of the throughput is
\* finite (and non-negative).
C6_ThroughputFinite == InWalk => SFinite(throughput)

\* C7: no division by a zero probability is performed, neither of the
\* sampled BSDF value in trace nor of the initial flux in generate_samples.
C7_NoDivisionByZero == ~divByZero

\* C8: no way a walk can end aborts; the assertion scattering_prob > 0.0
\* holds every time it is reached.
C8_AssertionHolds ==
    /\ ~assertFailed
    /\ pc = "traced" =>
          step \in {"miss", "no_material", "no_surface_shader", "no_bsdf",
                    "visitor_stop", "mode_rejected", "rr_death", "max_length",
                    "hard_limit"}

\* the roulette was played at the last vertex and the path survived it
C8_Witness ==
    /\ pc = "trace" /\ step = "bounce" /\ m_rr_min_path_length > 0
    /\ path_length - 1 >= m_rr_min_path_length
    /\ throughput = Spectrum(Two)

\* C9: after every generate_samples the path-length statistics have gained
\* exactly one entry, the value trace returned, and m_path_count is the
\* number of invocations made so far.
C9_StatisticsMatch ==
    /\ pc = "idle" =>
          /\ m_path_count = invocations
          /\ Len(m_path_length) = invocations
          /\ invocations > 0 => m_path_length[invocations] = path_length
    /\ pc # "idle" =>
          /\ m_path_count = invocations - 1
          /\ Len(m_path_length) = invocations - 1

C9_Witness ==
    /\ pc = "idle" /\ invocations > 1
    /\ m_path_length[invocations] > m_path_length[1]

\* C10: generate_samples returns the number of samples it appended to the
\* collection during the invocation, and leaves the earlier ones as they were.
C10_ReturnsAppendedCount ==
    /\ Len(samples) >= Len(samples0)
    /\ SubSeq(samples, 1, Len(samples0)) = samples0
    /\ pc = "idle" => Len(samples) = Len(samples0) + ret
    /\ pc # "idle" => Len(samples) = Len(samples0) + m_sample_count

C10_Witness == pc = "idle" /\ Len(samples0) > 0 /\ ret > 1

\* C11: when the light vertex projects outside the image, visit_light_vertex
\* appends no sample and the walk is run all the same: the generator is in
\* the walk with no sample at its entry, and every sample of the invocation
\* comes from a visit_vertex call.
C11_OutsideLightVertexEmitsNothing ==
    light_outside =>
        /\ InWalk
        /\ step = "begin" => (pc = "trace" /\ m_sample_count = 0)
        /\ m_sample_count <= nVisit
        /\ Len(samples) = Len(samples0) + m_sample_count

\* a later vertex of the path appended a sample
C11_Witness == light_outside /\ pc = "traced" /\ m_sample_count > 0

RECURSIVE SumOf(_)
SumOf(c) ==
    IF c = <<>> THEN RZero
    ELSE RAdd(SumOf(SubSeq(c, 1, Len(c) - 1)), c[Len(c)])

\* C13: compute_image_based_lighting returns the estimate of the BSDF
\* sampling plus the estimate of the environment sampling, each being the
\* sum of the contributions of its samples, divided by its sample count
\* when the count is greater than 1 and undivided when it is 0 or 1; a
\* count of 0 gives a zero estimate.
C13_RadianceIsSumOfEstimates ==
    LET estimate_bsdf ==
            IF bsdf_sample_count > 1
            THEN RDiv(SumOf(contribs_bsdf), RInt(bsdf_sample_count))
            ELSE SumOf(contribs_bsdf)
        estimate_env ==
            IF env_sample_count > 1
            THEN RDiv(SumOf(contribs_env), RInt(env_sample_count))
            ELSE SumOf(contribs_env)
    IN  /\ ibl_pc = "env_sampling" => radiance = estimate_bsdf
        /\ ibl_pc = "done" =>
              /\ radiance = RAdd(estimate_bsdf, estimate_env)
              /\ bsdf_sample_count = 0 => estimate_bsdf = RZero
              /\ env_sample_count = 0 => estimate_env = RZero

C13_Witness ==
    /\ ibl_pc = "done" /\ bsdf_sample_count > 1 /\ env_sample_count = 1
    /\ Len(contribs_bsdf) = bsdf_sample_count /\ Len(contribs_env) = 1
    /\ radiance # SumOf(contribs_bsdf \o contribs_env)

\* C14: every iteration that traces an occlusion ray hands the tracer a
\* fork of the sampling context, never the caller's context itself, so that
\* the caller's context advances by the one draw of the iteration and no
\* more, in both techniques.
C14_OcclusionTestsRunOnForks ==
    [][(sample_index' = sample_index + 1 /\ drawn'.context # "none") =>
          /\ drawn'.context = "child_sampling_context"
          /\ sampling_context' = sampling_context + 1]_vars

\* C15: for the densities of a direction whose products with the sample
\* counts are not both zero, the MIS weight of the BSDF-sampling technique
\* and that of the environment-sampling technique sum to at most 1;
\* exchanging the two techniques exchanges the two weights and keeps the
\* sum; the weight an iteration uses is the one of its technique.
C15_MisWeightsSumToAtMostOne ==
    LET nb == bsdf_sample_count
        pb == drawn.bsdf_prob
        ne == env_sample_count
        pe == drawn.env_prob
        wb == MisWeightBsdf(nb, pb, ne, pe)
        we == MisWeightEnv(nb, pb, ne, pe)
    IN  (drawn.weighed /\ <<RMul(RInt(nb), pb), RMul(RInt(ne), pe)>> # <<RZero, RZero>>) =>
            /\ RLeq(RAdd(wb, we), ROne)
            /\ MisWeightBsdf(ne, pe, nb, pb) = we
            /\ MisWeightEnv(ne, pe, nb, pb) = wb
            /\ RAdd(MisWeightBsdf(ne, pe, nb, pb), MisWeightEnv(ne, pe, nb, pb))
                  = RAdd(wb, we)
            /\ mis_weight = IF ibl_pc = "bsdf_sampling" THEN wb ELSE we

\* the two weights differ: 16/17 for the BSDF sampling, 1/17 for the other
C15_Witness ==
    /\ ibl_pc = "bsdf_sampling" /\ drawn.weighed
    /\ mis_weight = Ratio(16, 17)

\* C16: an iteration of the BSDF sampling whose sample is not Diffuse
\* traces no occlusion ray, does not evaluate the environment and leaves
\* the radiance as it is; at the end the sum is divided by
\* bsdf_sample_count all the same.
C16_NonDiffuseContributesNothing ==
    [][/\ (ibl_pc = "bsdf_sampling" /\ sample_index' = sample_index + 1
                /\ drawn'.mode # "Diffuse") =>
              /\ radiance' = radiance
              /\ contribs_bsdf' = contribs_bsdf
              /\ drawn'.context = "none"
              /\ ~drawn'.evaluated
              /\ ~drawn'.weighed
       /\ (ibl_pc = "bsdf_sampling" /\ ibl_pc' = "env_sampling") =>
              /\ sample_index = bsdf_sample_count
              /\ radiance' = IF bsdf_sample_count > 1
                             THEN RDiv(radiance, RInt(bsdf_sample_count))
                             ELSE radiance]_vars

\* a glossy sample after a diffuse sample that contributed
C16_Witness ==
    /\ ibl_pc = "bsdf_sampling" /\ sample_index = bsdf_sample_count
    /\ drawn.mode = "Glossy" /\ Len(contribs_bsdf) = 1 /\ radiance # RZero

\* C17: at every vertex the tracer visits, visible to the camera or not, the
\* visitor multiplies the particle weight by the throughput it is handed.
C17_WeightUpdatedAtEveryVertex ==
    [][(pc = "trace" /\ visited') => m_alpha' = SMul(m_alpha, throughput)]_vars

\* C18: the particle weight applied to the sample emitted at a vertex is the
\* initial particle weight multiplied by the cumulative throughput the
\* tracer handed to visit_vertex there, whatever happened at the earlier
\* vertices.
C18_WeightIsInitialTimesThroughput ==
    [][(pc = "trace" /\ m_sample_count' = m_sample_count + 1)
          => m_alpha' = SMul(initial_alpha, throughput)]_vars

\* C19: an iteration that takes the transparency retry leaves path_length,
\* the throughput and the stored mode and probability as they were, traces
\* a ray with the direction and time of the incoming ray from the hit
\* point, and calls neither visit_vertex nor visit_environment.
C19_RetryKeepsThePath ==
    [][(pc = "trace" /\ step' = "retry") =>
          /\ path_length' = path_length
          /\ nScattered' = nScattered
          /\ throughput' = throughput
          /\ bsdf_mode' = bsdf_mode
          /\ bsdf_prob' = bsdf_prob
          /\ ray'.m_dir = ray.m_dir
          /\ ray'.m_time = ray.m_time
          /\ ray'.m_org = shading_point_ptr
          /\ ~visited'
          /\ nVisit' = nVisit
          /\ nEnv' = nEnv
          /\ samples' = samples
          /\ m_alpha' = m_alpha]_vars

\* a surface was skipped after a bounce that changed the throughput
C19_Witness ==
    /\ pc = "trace" /\ step = "retry" /\ path_length > 1
    /\ throughput # Spectrum(One) /\ ray.m_dir > 0

\* C20: in an iteration that reaches the roulette test, the roulette sample
\* is drawn if and only if m_rr_min_path_length > 0 and path_length >=
\* m_rr_min_path_length; when it is not drawn the path does not end by
\* roulette and the throughput is the one before the bounce multiplied by
\* the probability-divided BSDF value, not rescaled; an iteration that does
\* not reach the test draws no roulette sample.
C20_RouletteOnlyFromMinimum ==
    [][pc = "trace" =>
          LET applied == /\ m_rr_min_path_length > 0
                         /\ path_length >= m_rr_min_path_length
              tested == step' \in {"rr_death", "max_length", "hard_limit", "bounce"}
          IN  /\ drew_rr' <=> (tested /\ applied)
              /\ step' = "rr_death" => applied
              /\ (tested /\ ~applied) => throughput' = SMul(throughput, bsdf_value')]_vars

\* a bounce below the minimum: the roulette is configured but not played
C20_Witness ==
    /\ pc = "trace" /\ step = "bounce" /\ ~drew_rr
    /\ m_rr_min_path_length > 1 /\ path_length = m_rr_min_path_length
    /\ throughput # Spectrum(One)

\* the iterations that sample the BSDF end in one of these ways
SampledSteps == {"mode_rejected", "rr_death", "max_length", "hard_limit", "bounce"}

\* C21: when the roulette is played, a path that survives has its
\* throughput divided by min(max component of the probability-divided
\* bsdf_value, 1), a function of this bounce's value alone; with the
\* probability 1 the path always survives and its throughput is the one the
\* bounce gave it; with the probability 0 it never survives.
C21_RouletteDividesByItsProbability ==
    [][(pc = "trace" /\ drew_rr') =>
          LET prob == Min(max_value(bsdf_value'), One)
              bounced == SMul(throughput, bsdf_value')
          IN  /\ step' # "rr_death" => throughput' = SDiv(bounced, prob)
              /\ prob = One => (step' # "rr_death" /\ throughput' = bounced)
              /\ prob = Zero => step' = "rr_death"]_vars

\* a path survived a roulette of probability 1/2
C21_Witness ==
    /\ pc = "trace" /\ step = "bounce" /\ drew_rr
    /\ max_value(bsdf_value) = Half
    /\ throughput = Spectrum(One)

\* C22: an iteration that samples a mode outside ScatteringModesMask ends
\* the trace there: the throughput and path_length are the ones before the
\* sample and the visitor, called once at this vertex, is not called again;
\* with the mask of the three modes no trace ends that way.
C22_RejectedModeEndsTheTrace ==
    [][(pc = "trace" /\ step' \in SampledSteps) =>
          /\ bsdf_mode' \notin ScatteringModesMask =>
                /\ step' = "mode_rejected"
                /\ pc' = "traced"
                /\ throughput' = throughput
                /\ path_length' = path_length
                /\ nScattered' = nScattered
                /\ nVisit' = nVisit + 1
                /\ nEnv' = nEnv
          /\ ScatteringModesMask = Modes => step' # "mode_rejected"]_vars

\* a glossy sample at the second vertex of a diffuse-only walk
C22_Witness ==
    /\ pc = "traced" /\ step = "mode_rejected"
    /\ bsdf_mode = "Glossy" /\ path_length = 2
    /\ throughput = <<Half, One>>

\* C24: an iteration in which visit_vertex asks to stop ends the trace at
\* that vertex: the BSDF is not sampled, the throughput, path_length and
\* the stored mode and probability keep their values, and the visitor is
\* not called again.
C24_VisitorStopEndsTheTrace ==
    [][(pc = "trace" /\ step' = "visitor_stop") =>
          /\ pc' = "traced"
          /\ visited' /\ nVisit' = nVisit + 1
          /\ nEnv' = nEnv
          /\ bsdf_mode' = bsdf_mode
          /\ bsdf_prob' = bsdf_prob
          /\ ~drew_rr'
          /\ throughput' = throughput
          /\ path_length' = path_length
          /\ nScattered' = nScattered]_vars

\* the visitor stops the walk at the second vertex, after a diffuse bounce
C24_Witness ==
    /\ pc = "traced" /\ step = "visitor_stop"
    /\ path_length = 2 /\ nVisit = 2
    /\ bsdf_mode = "Diffuse" /\ throughput = <<Half, One>>

\* C25: visit_environment is called in the iterations whose ray misses and
\* in no other, at most once in a trace, and the trace ends there; an
\* iteration that ends on an unbound material, surface shader or BSDF calls
\* neither visit_vertex nor visit_environment.
C25_EnvironmentVisitedOnceAtMiss ==
    [][pc = "trace" =>
          /\ nEnv' <= 1
          /\ (nEnv' = nEnv + 1) <=> (step' = "miss")
          /\ nEnv' \in {nEnv, nEnv + 1}
          /\ step' = "miss" => (pc' = "traced" /\ ~visited' /\ nVisit' = nVisit)
          /\ step' \in {"no_material", "no_surface_shader", "no_bsdf"} =>
                /\ pc' = "traced"
                /\ ~visited' /\ nVisit' = nVisit /\ nEnv' = nEnv
                /\ samples' = samples /\ m_alpha' = m_alpha]_vars

\* the ray scattered at the second vertex misses
C25_Witness ==
    /\ pc = "traced" /\ step = "miss"
    /\ nEnv = 1 /\ nVisit = 2 /\ path_length = 3

\* C26: an iteration that traces a ray, cutoff or scattered, writes the
\* slot that does not hold the current shading point, passes the current
\* point as the parent, and the written slot becomes the current point:
\* the two slots alternate.
C26_SlotsAlternate ==
    [][(pc = "trace" /\ step' \in {"retry", "bounce"}) =>
          /\ shading_point_ptr # Slot(shading_point_index)
          /\ ray'.m_org = shading_point_ptr
          /\ shading_point_ptr' = Slot(shading_point_index)
          /\ shading_point_ptr' # shading_point_ptr
          /\ shading_point_index' = 1 - shading_point_index
          /\ shading_point_ptr' # Slot(shading_point_index')]_vars

\* the third intersection of a walk, a retry after a bounce and a retry
C26_Witness ==
    /\ pc = "trace" /\ step = "retry"
    /\ path_length = 2 /\ ray.m_org = "shading_points[1]"
    /\ shading_point_ptr = "shading_points[0]" /\ shading_point_index = 1

\* C29: a trace ends with as many visit_vertex calls as the path length it
\* returns, or one less; path_length changes only by one, in an iteration
\* that called visit_vertex and traces a scattered ray, and every scattered
\* ray counts; a transparency retry leaves it alone.
C29_VisitsMatchPathLength ==
    [][pc = "trace" =>
          /\ pc' = "traced" => nVisit' \in {path_length', path_length' - 1}
          /\ path_length' # path_length =>
                /\ path_length' = path_length + 1
                /\ step' = "bounce"
                /\ visited'
          /\ step' = "bounce" =>
                (path_length' = path_length + 1 /\ nScattered' = nScattered + 1)
          /\ step' = "retry" => path_length' = path_length]_vars

\* a trace that ends one visit short of its length, on an unbound material
C29_Witness ==
    /\ pc = "traced" /\ step = "no_material"
    /\ path_length = 2 /\ nVisit = 1 /\ nScattered = 1

\* C23: visit_vertex is passed the mode and the probability stored when the
\* iteration starts: (Specular, DiracDelta) at the first vertex of a trace,
\* and after that the pair the last bounce stored, which a transparency
\* retry leaves alone; visit_environment is passed the stored mode,
\* Specular when no vertex was visited.
C23_VisitorReceivesPreviousBounce ==
    [][pc = "trace" =>
          /\ visited' => received' = <<"visit_vertex", bsdf_mode, bsdf_prob>>
          /\ (visited' /\ nVisit = 0) =>
                received' = <<"visit_vertex", "Specular", DiracDelta>>
          /\ step' = "miss" => received' = <<"visit_environment", bsdf_mode>>
          /\ (step' = "miss" /\ nVisit = 0) =>
                received' = <<"visit_environment", "Specular">>
          /\ step' = "retry" =>
                (bsdf_mode' = bsdf_mode /\ bsdf_prob' = bsdf_prob /\ received' = <<>>)
          /\ (~visited' /\ step' # "miss") => received' = <<>>]_vars

\* the second vertex, a half-transparent surface that was not skipped, is
\* visited with the pair of the glossy bounce before it, and the walk then
\* stores the pair sampled there
C23_Witness ==
    /\ pc = "trace" /\ step = "bounce" /\ path_length = 3 /\ drew_alpha
    /\ received = <<"visit_vertex", "Glossy", Half>>
    /\ bsdf_mode = "Diffuse"

\* C27: every sample in the caller's vector lies in the image, comes from
\* a vertex with a non-zero transmission to the camera and has alpha 1; an
\* iteration appends at most one sample, and only if it called
\* visit_vertex; an iteration whose ray misses appends nothing and leaves
\* the visitor's members alone.
C27_SamplesAreVisibleVertices ==
    [][/\ \A i \in 1..Len(samples') :
            /\ samples'[i].m_position[1] >= 0 /\ samples'[i].m_position[1] < 2
            /\ samples'[i].m_position[2] >= 0 /\ samples'[i].m_position[2] < 2
            /\ samples'[i].transmission # Zero
            /\ samples'[i].alpha = One
       /\ pc = "trace" =>
            /\ Len(samples') \in {Len(samples), Len(samples) + 1}
            /\ Len(samples') = Len(samples) + 1 =>
                  (visited' /\ SubSeq(samples', 1, Len(samples)) = samples)
            /\ step' = "miss" =>
                  /\ samples' = samples
                  /\ m_sample_count' = m_sample_count
                  /\ m_alpha' = m_alpha]_vars

\* the light vertex and two vertices gave a sample each, then the ray left
C27_Witness ==
    /\ pc = "traced" /\ step = "miss"
    /\ m_sample_count = 3 /\ nVisit = 2 /\ Len(samples) = 3

\* C28: a BSDF sample whose probability is the Dirac-delta sentinel is
\* carried through the BSDF sampling: an occlusion ray is traced for it
\* and, when the ray reaches the environment, the sample is weighted with
\* a MIS weight of exactly 1 and its contribution is added to the radiance.
C28_SpecularSampleWeighsOne ==
    [][(ibl_pc = "bsdf_sampling" /\ sample_index' = sample_index + 1
            /\ drawn'.bsdf_prob = RDiracDelta) =>
          /\ drawn'.context # "none"
          /\ drawn'.evaluated =>
                /\ drawn'.weighed
                /\ mis_weight' = ROne
                /\ Len(contribs_bsdf') = Len(contribs_bsdf) + 1]_vars

\* C30: in every callback the GIL is held from before the Python override
\* is called until the callback returns, and not after; an exception the
\* override raises does not reach the renderer: the callback returns, with
\* AbortRendering from on_progress and normally from the other callbacks,
\* and the error indicator is cleared.
C30_CallbacksHoldTheGilAndContainErrors ==
    /\ py_pc \in {"locked", "thrown", "returning"} => gil = "callback"
    /\ py_pc \in {"renderer", "entered"} => gil # "callback"
    /\ raised =>
          /\ py_pc \in {"thrown", "returning", "renderer"}
          /\ py_pc \in {"returning", "renderer"} =>
                /\ result = IF callback = "on_progress" THEN "AbortRendering"
                            ELSE "void"
                /\ error_indicator = "none"

====
